---------------------------- MODULE Spec2Model ----------------------------
(***************************************************************************)
(* Command sets for wifi bridge version 6                                  *)
(* (limitlessled/group/commands/v6.py).                                    *)
(*                                                                         *)
(* The state is one bridge (the transport session: wb1, wb2, sn), one      *)
(* command set bound to it (class, group number, remote style), the last   *)
(* method call made on the command set and what that call returned or      *)
(* raised.                                                                 *)
(*                                                                         *)
(* Python numbers are records [ty, n, d]: the int k is I(k) and F(n, d) is  *)
(* the float n / d.  With d a power of two these floats and their products *)
(* with 100 are exact IEEE doubles, so the arithmetic below is the code's. *)
(***************************************************************************)
EXTENDS Integers, Sequences, FiniteSets

VARIABLES bridge, cs, call, result

vars == <<bridge, cs, call, result>>

---------------------------------------------------------------------------
(* Bounds of the model *)

\* The float arguments of the state machine are n / FracDen, n in 0..FracDen.
FracDen == 8

\* The float arguments of the conversion runs are n / FineDen, n in 0..FineDen.
FineDen == 128

\* Group numbers (zones) are 0..MaxZone; 0 addresses all groups.
MaxZone == 3

\* The RGB components the colors are drawn from: those of the state machine
\* and those of the conversion runs.
RgbLevels == {0, 128, 255}
FineLevels == {0, 1, 64, 128, 254, 255}

\* The session id pairs (wb1, wb2) and sequence numbers the transport writes.
SessionIds == {<<17, 34>>, <<255, 0>>}
SequenceNumbers == {5, 6, 255}

---------------------------------------------------------------------------
(* Python numbers *)

I(k) == [ty |-> "int", n |-> k, d |-> 1]
F(n, d) == [ty |-> "float", n |-> n, d |-> d]

\* An RGB color tuple.
Rgb(r, g, b) == [ty |-> "rgb", r |-> r, g |-> g, b |-> b]

\* x * k for a Python number x and an int k.
PyMul(x, k) == [x EXCEPT !.n = @ * k]

\* x + y: an int when both are ints, a float otherwise.
PyAdd(x, y) ==
    LET ty == IF x.ty = "int" /\ y.ty = "int" THEN "int" ELSE "float"
    IN  IF x.d = y.d THEN [ty |-> ty, n |-> x.n + y.n, d |-> x.d]
        ELSE [ty |-> ty, n |-> x.n * y.d + y.n * x.d, d |-> x.d * y.d]

\* math.ceil: an int is returned as it is, a float is rounded up to an int.
MathCeil(x) ==
    IF x.ty = "int" THEN x ELSE I(-((-(x.n)) \div x.d))

\* sum(list), from the int 0.
RECURSIVE PySum(_)
PySum(s) ==
    IF s = <<>> THEN I(0)
    ELSE PyAdd(PySum(SubSeq(s, 1, Len(s) - 1)), s[Len(s)])

Raise(e) == [kind |-> "raise", error |-> e]

\* Command(cmd_bytes, group_number)
Command(cmd_bytes, group_number) ==
    [kind |-> "command", bytes |-> cmd_bytes, group |-> group_number]

---------------------------------------------------------------------------
(* class CommandSetV6 *)

PASSWORD_BYTE1 == 0
PASSWORD_BYTE2 == 0
MAX_COLOR == 255
MAX_BRIGHTNESS == 100
MAX_TEMPERATURE == 100

CommandSetV6_init(cls, group_number, remote_style) ==
    [cls |-> cls, group_number |-> group_number, remote_style |-> remote_style]

\* convert_brightness, rounding down.
convert_brightness_floor(brightness) ==
    LET x == PyMul(brightness, MAX_BRIGHTNESS)
    IN  IF x.ty = "int" THEN x ELSE I(x.n \div x.d)

convert_brightness(brightness) == MathCeil(PyMul(brightness, MAX_BRIGHTNESS))

convert_temperature(temperature) == MathCeil(PyMul(temperature, MAX_TEMPERATURE))

Max3(a, b, c) == IF a >= b /\ a >= c THEN a ELSE IF b >= c THEN b ELSE c
Min3(a, b, c) == IF a =< b /\ a =< c THEN a ELSE IF b =< c THEN b ELSE c

\* colorsys.rgb_to_hsv(*color)[0] as the exact fraction <<num, den>>,
\* 0 <= num < den: the hue in sixths is bc-gc, 2+rc-bc or 4+gc-rc with
\* rc = (maxc-r)/rangec and so on, then (h/6.0) % 1.0.  On the colors of
\* RgbLevels and FineLevels the doubles of the code give the same bytes.
rgb_to_hsv_hue(color) ==
    LET r == color.r
        g == color.g
        b == color.b
        maxc == Max3(r, g, b)
        minc == Min3(r, g, b)
        rangec == maxc - minc
        h == IF r = maxc THEN (maxc - b) - (maxc - g)
             ELSE IF g = maxc THEN 2 * rangec + (maxc - r) - (maxc - b)
             ELSE 4 * rangec + (maxc - g) - (maxc - r)
    IN  IF minc = maxc THEN <<0, 1>>
        ELSE <<h % (6 * rangec), 6 * rangec>>

\* convert_color, scaling the hue by the 256 color steps.
convert_color_steps(color) ==
    LET hue == rgb_to_hsv_hue(color)
    IN  I((hue[1] * (MAX_COLOR + 1)) \div hue[2])

convert_color(color) ==
    LET hue == rgb_to_hsv_hue(color)
    IN  I((hue[1] * MAX_COLOR) \div hue[2])

\* preamble, with the session bytes of wb2 and wb1 exchanged.
preamble_swapped(wb1, wb2, sn) ==
    <<I(128), I(0), I(0), I(0), I(17), I(wb2), I(wb1), I(0), I(sn), I(0)>>

preamble(wb1, wb2, sn) ==
    <<I(128), I(0), I(0), I(0), I(17), I(wb1), I(wb2), I(0), I(sn), I(0)>>

\* x & 0xFF: the low 8 bits of an int, TypeError for a float.
BitAnd0xFF(x) ==
    IF x.ty = "float" THEN Raise("TypeError") ELSE I(x.n % 256)

\* checksum, without the & 0xFF.
checksum_unmasked(cmd, zone_selector) == PySum(cmd \o zone_selector)

checksum(cmd, zone_selector) == BitAnd0xFF(PySum(cmd \o zone_selector))

build_command(self, br, cmd_1, cmd_2) ==
    LET wb1 == br.wb1
        wb2 == br.wb2
        sn == br.sn
        cmd == <<I(49), I(PASSWORD_BYTE1), I(PASSWORD_BYTE2),
                 I(self.remote_style), cmd_1, cmd_2, cmd_2, cmd_2, cmd_2>>
        zone_selector == <<I(self.group_number), I(0)>>
        ck == checksum(cmd, zone_selector)
    IN  IF "kind" \in DOMAIN ck THEN ck
        ELSE Command(preamble(wb1, wb2, sn) \o cmd \o zone_selector \o <<ck>>,
                     self.group_number)

---------------------------------------------------------------------------
(* class CommandSetBridgeLightV6 *)

BridgeLight_REMOTE_STYLE == 0

BridgeLight_init(group_number) ==
    CommandSetV6_init("BridgeLight", group_number, BridgeLight_REMOTE_STYLE)

\* on, sending the bytes of off.
BridgeLight_on_as_off(self, br) == build_command(self, br, I(3), I(4))

BridgeLight_on(self, br) == build_command(self, br, I(3), I(3))
BridgeLight_off(self, br) == build_command(self, br, I(3), I(4))
BridgeLight_white(self, br) == build_command(self, br, I(3), I(5))
BridgeLight_color(self, br, color) ==
    build_command(self, br, I(1), convert_color(color))
BridgeLight_brightness(self, br, brightness) ==
    build_command(self, br, I(2), convert_brightness(brightness))

---------------------------------------------------------------------------
(* class CommandSetWhiteV6 *)

White_REMOTE_STYLE == 8

White_init(group_number) ==
    CommandSetV6_init("White", group_number, White_REMOTE_STYLE)

White_on(self, br) == build_command(self, br, I(4), I(1))
White_off(self, br) == build_command(self, br, I(4), I(2))
White_night_light(self, br) == build_command(self, br, I(4), I(5))
White_brightness(self, br, brightness) ==
    build_command(self, br, I(3), convert_brightness(brightness))
White_temperature(self, br, temperature) ==
    build_command(self, br, I(5), temperature)

---------------------------------------------------------------------------
(* class CommandSetRgbwV6 *)

Rgbw_REMOTE_STYLE == 8

Rgbw_init(group_number) ==
    CommandSetV6_init("Rgbw", group_number, Rgbw_REMOTE_STYLE)

Rgbw_on(self, br) == build_command(self, br, I(4), I(1))
Rgbw_off(self, br) == build_command(self, br, I(4), I(2))
Rgbw_night_light(self, br) == build_command(self, br, I(4), I(5))
\* white, sending the bytes the RGBWW command set sends.
Rgbw_white_as_rgbww(self, br) == build_command(self, br, I(3), I(5))

Rgbw_white(self, br) == build_command(self, br, I(5), I(100))
Rgbw_color(self, br, color) ==
    build_command(self, br, I(1), convert_color(color))
Rgbw_brightness(self, br, brightness) ==
    build_command(self, br, I(3), convert_brightness(brightness))

---------------------------------------------------------------------------
(* class CommandSetRgbwwV6 *)

Rgbww_REMOTE_STYLE == 7

Rgbww_init(group_number) ==
    CommandSetV6_init("Rgbww", group_number, Rgbww_REMOTE_STYLE)

Rgbww_on(self, br) == build_command(self, br, I(3), I(1))
Rgbww_off(self, br) == build_command(self, br, I(3), I(2))
Rgbww_night_light(self, br) == build_command(self, br, I(3), I(6))
Rgbww_white(self, br) == build_command(self, br, I(3), I(5))
Rgbww_color(self, br, color) ==
    build_command(self, br, I(1), convert_color(color))
Rgbww_brightness(self, br, brightness) ==
    build_command(self, br, I(2), convert_brightness(brightness))

---------------------------------------------------------------------------
(* Method lookup and the state machine *)

Classes == {"BridgeLight", "White", "Rgbw", "Rgbww"}

\* The operations the base class CommandSet defines for every class: none.
CommandSet_methods == {}

\* The methods each class body defines.
Methods(cls) ==
    CASE cls = "BridgeLight" -> {"on", "off", "white", "color", "brightness"}
      [] cls = "White" -> {"on", "off", "night_light", "brightness", "temperature"}
      [] cls = "Rgbw" ->
           {"on", "off", "night_light", "white", "color", "brightness"}
      [] cls = "Rgbww" ->
           {"on", "off", "night_light", "white", "color", "brightness"}

New(cls, group_number) ==
    CASE cls = "BridgeLight" -> BridgeLight_init(group_number)
      [] cls = "White" -> White_init(group_number)
      [] cls = "Rgbw" -> Rgbw_init(group_number)
      [] cls = "Rgbww" -> Rgbww_init(group_number)

\* The method op of class c.
Dispatch(c, self, br, op, arg) ==
         CASE c = "BridgeLight" /\ op = "on" -> BridgeLight_on(self, br)
           [] c = "BridgeLight" /\ op = "off" -> BridgeLight_off(self, br)
           [] c = "BridgeLight" /\ op = "white" -> BridgeLight_white(self, br)
           [] c = "BridgeLight" /\ op = "color" -> BridgeLight_color(self, br, arg)
           [] c = "BridgeLight" /\ op = "brightness" ->
                BridgeLight_brightness(self, br, arg)
           [] c = "White" /\ op = "on" -> White_on(self, br)
           [] c = "White" /\ op = "off" -> White_off(self, br)
           [] c = "White" /\ op = "night_light" -> White_night_light(self, br)
           [] c = "White" /\ op = "brightness" -> White_brightness(self, br, arg)
           [] c = "White" /\ op = "temperature" -> White_temperature(self, br, arg)
           [] c = "Rgbw" /\ op = "on" -> Rgbw_on(self, br)
           [] c = "Rgbw" /\ op = "off" -> Rgbw_off(self, br)
           [] c = "Rgbw" /\ op = "night_light" -> Rgbw_night_light(self, br)
           [] c = "Rgbw" /\ op = "white" -> Rgbw_white(self, br)
           [] c = "Rgbw" /\ op = "color" -> Rgbw_color(self, br, arg)
           [] c = "Rgbw" /\ op = "brightness" -> Rgbw_brightness(self, br, arg)
           [] c = "Rgbww" /\ op = "on" -> Rgbww_on(self, br)
           [] c = "Rgbww" /\ op = "off" -> Rgbww_off(self, br)
           [] c = "Rgbww" /\ op = "night_light" -> Rgbww_night_light(self, br)
           [] c = "Rgbww" /\ op = "white" -> Rgbww_white(self, br)
           [] c = "Rgbww" /\ op = "color" -> Rgbww_color(self, br, arg)
           [] c = "Rgbww" /\ op = "brightness" -> Rgbww_brightness(self, br, arg)

\* Invoke, with the white command set deriving from the RGBW one.
Invoke_white_from_rgbw(self, br, op, arg) ==
    IF op \in Methods(self.cls) \cup CommandSet_methods
    THEN Dispatch(self.cls, self, br, op, arg)
    ELSE IF self.cls = "White" /\ op \in Methods("Rgbw")
    THEN Dispatch("Rgbw", self, br, op, arg)
    ELSE Raise("AttributeError")

\* self.op(arg): the method of the object's class, or AttributeError when
\* neither the class nor its base defines it.
Invoke(self, br, op, arg) ==
    IF op \in Methods(self.cls) \cup CommandSet_methods
    THEN Dispatch(self.cls, self, br, op, arg)
    ELSE Raise("AttributeError")

Zones == 0..MaxZone
Fractions(den) == {F(n, den) : n \in 0..den} \cup {I(0), I(1)}
Colors(levels) == {Rgb(r, g, b) : r \in levels, g \in levels, b \in levels}
NoArg == [ty |-> "none"]
NoCall == [op |-> "none", arg |-> NoArg, at |-> [wb1 |-> 0, wb2 |-> 0, sn |-> 0]]
NoResult == [kind |-> "none"]

Bridges ==
    {[wb1 |-> s[1], wb2 |-> s[2], sn |-> n] : s \in SessionIds, n \in SequenceNumbers}

Init ==
    /\ bridge \in Bridges
    /\ cs \in {New(c, z) : c \in Classes, z \in Zones}
    /\ call = NoCall
    /\ result = NoResult

\* Called, with the build moving the bridge's sequence number on.
Called_moves_sn(op, arg) ==
    /\ call' = [op |-> op, arg |-> arg, at |-> bridge]
    /\ bridge' = [bridge EXCEPT !.sn = (@ + 1) % 256]
    /\ UNCHANGED cs

\* What a method call leaves behind besides its result: the method has
\* read the bridge and the command set and has written neither.
Called(op, arg) ==
    /\ call' = [op |-> op, arg |-> arg, at |-> bridge]
    /\ UNCHANGED <<bridge, cs>>

on ==
    /\ result' = Invoke(cs, bridge, "on", NoArg)
    /\ Called("on", NoArg)

off ==
    /\ result' = Invoke(cs, bridge, "off", NoArg)
    /\ Called("off", NoArg)

white ==
    /\ result' = Invoke(cs, bridge, "white", NoArg)
    /\ Called("white", NoArg)

night_light ==
    /\ result' = Invoke(cs, bridge, "night_light", NoArg)
    /\ Called("night_light", NoArg)

color ==
    \E c \in Colors(RgbLevels) :
        /\ result' = Invoke(cs, bridge, "color", c)
        /\ Called("color", c)

brightness ==
    \E b \in Fractions(FracDen) :
        /\ result' = Invoke(cs, bridge, "brightness", b)
        /\ Called("brightness", b)

temperature ==
    \E t \in Fractions(FracDen) :
        /\ result' = Invoke(cs, bridge, "temperature", t)
        /\ Called("temperature", t)

\* A command set is constructed for a group of the bridge.
Construct ==
    \E c \in Classes, z \in Zones :
        /\ cs' = New(c, z)
        /\ call' = NoCall
        /\ result' = NoResult
        /\ UNCHANGED bridge

\* The transport starts a session: it writes the session id bytes.
StartSession ==
    \E s \in SessionIds :
        /\ bridge' = [bridge EXCEPT !.wb1 = s[1], !.wb2 = s[2]]
        /\ UNCHANGED <<cs, call, result>>

\* The transport moves the sequence number.
SetSequence ==
    \E n \in SequenceNumbers :
        /\ bridge' = [bridge EXCEPT !.sn = n]
        /\ UNCHANGED <<cs, call, result>>

Next ==
    \/ on
    \/ off
    \/ white
    \/ night_light
    \/ color
    \/ brightness
    \/ temperature
    \/ Construct
    \/ StartSession
    \/ SetSequence

Spec == Init /\ [][Next]_vars

---------------------------------------------------------------------------
(* The conversions on a finer grid of arguments: one command set of each   *)
(* class on one bridge, brightness and color called with every argument.   *)

InitConvert ==
    /\ bridge = [wb1 |-> 17, wb2 |-> 34, sn |-> 5]
    /\ cs \in {New(c, 1) : c \in Classes}
    /\ call = NoCall
    /\ result = NoResult

brightness_fine ==
    \E b \in Fractions(FineDen) :
        /\ result' = Invoke(cs, bridge, "brightness", b)
        /\ Called("brightness", b)

color_fine ==
    \E c \in Colors(FineLevels) :
        /\ result' = Invoke(cs, bridge, "color", c)
        /\ Called("color", c)

NextConvert ==
    \/ brightness_fine
    \/ color_fine

SpecConvert == InitConvert /\ [][NextConvert]_vars

---------------------------------------------------------------------------
(* Properties *)

IsCommand == result.kind = "command"

\* Byte [i] of the returned frame, counted from 0 as in the code.
B(i) == result.bytes[i + 1]

\* The sum of the values of bytes [10] through [20].
SumChecked ==
    B(10).n + B(11).n + B(12).n + B(13).n + B(14).n + B(15).n + B(16).n
        + B(17).n + B(18).n + B(19).n + B(20).n

\* The table of the operations each variant defines.
TableOps(cls) ==
    CASE cls = "BridgeLight" -> {"on", "off", "white", "color", "brightness"}
      [] cls = "White" -> {"on", "off", "night_light", "brightness"}
      [] cls = "Rgbw" -> {"on", "off", "white", "night_light", "color", "brightness"}
      [] cls = "Rgbww" -> {"on", "off", "white", "night_light", "color", "brightness"}

\* The remote-style byte of each variant.
TableRemoteStyle(cls) ==
    CASE cls = "BridgeLight" -> 0
      [] cls = "White" -> 8
      [] cls = "Rgbw" -> 8
      [] cls = "Rgbww" -> 7

\* The first command byte of each operation of the table.
TableCmd1(cls, op) ==
    CASE op = "color" -> 1
      [] op = "brightness" -> IF cls \in {"BridgeLight", "Rgbww"} THEN 2 ELSE 3
      [] op = "white" /\ cls = "Rgbw" -> 5
      [] OTHER -> IF cls \in {"BridgeLight", "Rgbww"} THEN 3 ELSE 4

\* The second command byte of each operation of the table.
TableCmd2(cls, op, arg) ==
    CASE op = "color" -> convert_color(arg)
      [] op = "brightness" -> convert_brightness(arg)
      [] op = "on" -> IF cls = "BridgeLight" THEN I(3) ELSE I(1)
      [] op = "off" -> IF cls = "BridgeLight" THEN I(4) ELSE I(2)
      [] op = "white" -> IF cls = "Rgbw" THEN I(100) ELSE I(5)
      [] op = "night_light" -> IF cls = "Rgbww" THEN I(6) ELSE I(5)

\* C1: every operation a variant defines, called with a parameter in
\* contract, returns a frame of exactly 22 bytes whose byte [21] is the sum
\* of bytes [10] through [20] modulo 256.
C1_DefinedOperationReturnsChecksummedFrame ==
    call.op \in Methods(cs.cls) =>
        /\ IsCommand
        /\ Len(result.bytes) = 22
        /\ B(21) = I(SumChecked % 256)

C3_CommandTable ==
    call.op \in TableOps(cs.cls) =>
        /\ IsCommand
        /\ B(13) = I(TableRemoteStyle(cs.cls))
        /\ B(14) = I(TableCmd1(cs.cls, call.op))
        /\ \A i \in 15..18 : B(i) = TableCmd2(cs.cls, call.op, call.arg)

\* white() of an RGBW command set returned (0x05, 0x64).
C3_Witness ==
    /\ cs.cls = "Rgbw"
    /\ call.op = "white"
    /\ IsCommand
    /\ B(14) = I(5)
    /\ B(15) = I(100)

\* on() of the bridge light of zone 3, called with session bytes
\* (0x11, 0x22) and sequence number 0x05.
C4_Case ==
    /\ cs.cls = "BridgeLight"
    /\ cs.group_number = 3
    /\ call.op = "on"
    /\ call.at = [wb1 |-> 17, wb2 |-> 34, sn |-> 5]

\* The frame of the example, with the given checksum byte.
C4_Frame(last) ==
    <<I(128), I(0), I(0), I(0), I(17), I(17), I(34), I(0), I(5), I(0),
      I(49), I(0), I(0), I(0), I(3), I(3), I(3), I(3), I(3),
      I(3), I(0), I(last)>>

\* C4 as stated: the example frame ends with the checksum 0x34.
C4_ExampleChecksum0x34 ==
    C4_Case => IsCommand /\ result.bytes = C4_Frame(52)

\* C4: the example frame ends with the checksum 0x43, which is
\* (0x31+0+0+0+3+3+3+3+3+3+0) & 0xFF.
C4_ExampleChecksum0x43 ==
    C4_Case => IsCommand /\ result.bytes = C4_Frame(67) /\ result.group = 3

C4_Witness == C4_Case /\ IsCommand

\* C5: every element of every returned frame is an integer in 0..255.
C5_BytesInRange ==
    IsCommand =>
        \A i \in DOMAIN result.bytes :
            /\ result.bytes[i].ty = "int"
            /\ result.bytes[i].n \in 0..255

\* A frame whose checked bytes sum to more than 255.
C5_Witness == IsCommand /\ SumChecked > 255

\* The operations the table leaves out for each variant.
TableUndefined(cls) ==
    CASE cls = "BridgeLight" -> {"night_light", "temperature"}
      [] cls = "White" -> {"white", "color"}
      [] cls = "Rgbw" -> {"temperature"}
      [] cls = "Rgbww" -> {"temperature"}

\* C6 as stated: an operation a variant does not define ends in an
\* UnsupportedOperation error.
C6_UnsupportedOperation ==
    call.op \in TableUndefined(cs.cls) => result = Raise("UnsupportedOperation")

\* C6: an operation a variant does not define ends in an AttributeError
\* and returns no frame.
C6_AttributeError ==
    call.op \in TableUndefined(cs.cls) =>
        /\ ~IsCommand
        /\ result = Raise("AttributeError")

\* color() was called on a white command set.
C6_Witness ==
    /\ cs.cls = "White"
    /\ call.op = "color"
    /\ result.kind = "raise"

Hue6(c) ==
    LET mx == Max3(c.r, c.g, c.b)
        mn == Min3(c.r, c.g, c.b)
    IN  IF mx = mn THEN <<0, 1>>
        ELSE IF mx = c.r THEN <<(c.g - c.b) % (6 * (mx - mn)), mx - mn>>
        ELSE IF mx = c.g THEN <<2 * (mx - mn) + (c.b - c.r), mx - mn>>
        ELSE <<4 * (mx - mn) + (c.r - c.g), mx - mn>>

SameHue(c1, c2) == Hue6(c1)[1] * Hue6(c2)[2] = Hue6(c2)[1] * Hue6(c1)[2]

IsCallStep == call'.op # "none" /\ <<call, result>>' # <<call, result>>

\* C9: no operation changes the bridge's session bytes or sequence number,
\* nor the command set's group number or remote style.
C9_OperationsWriteNothing ==
    [][IsCallStep => bridge' = bridge /\ cs' = cs]_vars

\* A frame was built from the bridge as the transport last wrote it.
C9_Witness ==
    /\ IsCommand
    /\ call.at = bridge
    /\ bridge = [wb1 |-> 255, wb2 |-> 0, sn |-> 255]

\* C10: temperature(t) of a white command set returns a frame with 0x05 in
\* byte [14] and t as given in bytes [15..18].
C10_TemperatureFrame ==
    (cs.cls = "White" /\ call.op = "temperature") =>
        /\ IsCommand
        /\ B(14) = I(5)
        /\ \A i \in 15..18 : B(i) = call.arg

===========================================================================
